---- MODULE Spec2Model ----
(***************************************************************************)
(* Model of dispatch-test (src/main.rs): one invocation of the harness.    *)
(* The program parses one subcommand, then runs a single-case operation    *)
(* (gen / compile / run) either once or, through run_all_for, over the     *)
(* Cartesian product of three axis ranges.  Every action is one call to    *)
(* the outside world (file system, rustc, nm, the benchmark binary)        *)
(* followed by the code that runs up to the next such call.                *)
(***************************************************************************)
EXTENDS Integers, Sequences, FiniteSets, TLC

\* ------------------------------------------------------------- bounds
MaxTypes == 4
MaxFns == 2
MaxCalls == 1
MaxStep == 2

\* ---------------------------------------------------------- constants
\* u32::MAX, the largest value of a count (num_types, num_fns, num_calls are
\* u32).  TLC's integers end at 2^31 - 1, so 4294967295 is written -1 here;
\* only WrappingAdd and AddOverflows ever compute with it.
U32Max == -1
\* const TEST_LOOPS
TEST_LOOPS == 100000

VARIABLES
    pc,         \* where the program is: "start", the next outside call, "exit"
    cmd,        \* the parsed subcommand (Cmd) with its arguments
    iters,      \* run_all_for: <<type_range, fn_range, call_range>>
    idx,        \* run_all_for: position of the three nested loops
    cur,        \* the CaseConfig the single-case operation is working on
    attempted,  \* history: the CaseConfigs handed to the single-case operation
    returned,   \* history: the Result each single-case operation returned
    trace,      \* history: the outside calls the single-case operation in
                \* progress (or the last one) has made, with their outcome
    out,        \* the lines that operation has printed to stdout
    fs,         \* the files this invocation has created
    written,    \* the last source file gen_case completed: its path and text
    result      \* "running", or how main ended: "ok", an error, "panic"

vars == <<pc, cmd, iters, idx, cur, attempted, returned, trace, out, fs, written, result>>

\* ------------------------------------------------------------ helpers
RECURSIVE Flatten(_)
Flatten(ss) == IF ss = <<>> THEN <<>> ELSE Head(ss) \o Flatten(Tail(ss))

Last(s) == s[Len(s)]

Case(t, f, c) == [num_types |-> t, num_fns |-> f, num_calls |-> c]

NoCase == Case(0, 0, 0)

NoIdx == <<0, 0, 0>>

Strategies == {"static", "dynamic"}

\* ------------------------------------------------------ the CLI surface
\* one axis of a sweep: <<num, step>>; a stepped axis may carry u32::MAX
AxisInputs(max) ==
    {<<n, s>> : n \in 0..max, s \in 0..MaxStep}
        \cup {<<U32Max, s>> : s \in 1..MaxStep}

CmdRec(kind, sweep, t, f, c, no_inline, asm) ==
    [kind |-> kind, sweep |-> sweep,
     num_types |-> t[1], num_fns |-> f[1], num_calls |-> c[1],
     step_types |-> t[2], step_fns |-> f[2], step_calls |-> c[2],
     no_inline |-> no_inline, asm |-> asm]

\* the three count arguments: a single-case subcommand takes no steps
AxisArgs(sweep, max) ==
    IF sweep THEN AxisInputs(max) ELSE {<<n, 0>> : n \in 0..max}

Kinds == {"gen", "compile", "run"}

\* ------------------------------------------------------ sweep expansion
\* (lo..=hi).step_by(step): lo, lo+step, ... while <= hi; empty when lo > hi
StepBy(lo, hi, step) ==
    IF lo > hi THEN <<>>
    ELSE [k \in 1..((hi - lo) \div step + 1) |-> lo + (k - 1) * step]

\* u32 `a + b` in a build without overflow checks, for the small b the
\* program adds: u32::MAX + b wraps to b - 1
WrappingAdd(a, b) == IF a = U32Max THEN b - 1 ELSE a + b

\* u32 `a + b` panics in a build with overflow checks
AddOverflows(a, b) == a = U32Max /\ b > 0

\* one axis of ranges(): stepped, 1..=num+1 by step; pinned, num..=num
AxisRange_noPlusOne(num, step) ==
    IF step > 0 THEN StepBy(1, num, step) ELSE StepBy(num, num, 1)

AxisRange_fromZero(num, step) ==
    IF step > 0 THEN StepBy(0, WrappingAdd(num, 1), step) ELSE StepBy(num, num, 1)

AxisRange(num, step) ==
    IF step > 0 THEN StepBy(1, WrappingAdd(num, 1), step) ELSE StepBy(num, num, 1)

Ranges(c) ==
    <<AxisRange(c.num_types, c.step_types),
      AxisRange(c.num_fns, c.step_fns),
      AxisRange(c.num_calls, c.step_calls)>>

RangesOverflow(c) ==
    \/ c.step_types > 0 /\ AddOverflows(c.num_types, 1)
    \/ c.step_fns > 0 /\ AddOverflows(c.num_fns, 1)
    \/ c.step_calls > 0 /\ AddOverflows(c.num_calls, 1)

\* the three nested for loops of run_all_for, as positions in the ranges
FirstIdx(its) ==
    IF Len(its[1]) = 0 \/ Len(its[2]) = 0 \/ Len(its[3]) = 0 THEN NoIdx
    ELSE <<1, 1, 1>>

NextIdx_fnOuter(its, i) ==
    IF i[3] < Len(its[3]) THEN <<i[1], i[2], i[3] + 1>>
    ELSE IF i[1] < Len(its[1]) THEN <<i[1] + 1, i[2], 1>>
    ELSE IF i[2] < Len(its[2]) THEN <<1, i[2] + 1, 1>>
    ELSE NoIdx

NextIdx(its, i) ==
    IF i[3] < Len(its[3]) THEN <<i[1], i[2], i[3] + 1>>
    ELSE IF i[2] < Len(its[2]) THEN <<i[1], i[2] + 1, 1>>
    ELSE IF i[1] < Len(its[1]) THEN <<i[1] + 1, 1, 1>>
    ELSE NoIdx

PointAt(its, i) == Case(its[1][i[1]], its[2][i[2]], its[3][i[3]])

\* ------------------------------------------------------- single case
VerifyCase_noCalls(config) ==
    config.num_types > 0 /\ config.num_fns > 0

VerifyCase_noTypes(config) ==
    config.num_fns > 0 /\ config.num_calls > 0

\* verify_case: the three assert!s all hold
VerifyCase(config) ==
    config.num_types > 0 /\ config.num_fns > 0 /\ config.num_calls > 0

\* gen_paths: {strategy}-{types:04}-{fns:04}-{calls:04}.{ext}
Path(strategy, config, ext) ==
    [strategy |-> strategy, num_types |-> config.num_types,
     num_fns |-> config.num_fns, num_calls |-> config.num_calls, ext |-> ext]

\* a file: complete is FALSE when a write to it failed part-way
File(path, complete) == [path |-> path, complete |-> complete]

WriteFile(files, f) == {x \in files : x.path # f.path} \cup {f}

Exists(files, path) == \E x \in files : x.path = path

\* ------------------------------------------------- source synthesizer
Line(kind, x, y, z, s) == [kind |-> kind, x |-> x, y |-> y, z |-> z, s |-> s]

Blank == Line("blank", 0, 0, 0, "")

InlineStr(opts) == IF opts.no_inline THEN "#[inline(never)]" ELSE ""

\* gen_type: ([u8; num], u16, [u8; num_types - num], )
GenType(num, num_types) == <<num, num_types - num>>

\* gen_ctor: ([0_u8; num], 0_u16, [0_u8; num_types - num], )
GenCtor(num, num_types) == <<num, num_types - num>>

\* type_template!: struct T{num}({types}); impl Io for T{num} { {inlining} .. }
TypeLines(config, inline_str) ==
    [i \in 1..config.num_types |->
        Line("type", i - 1, GenType(i - 1, config.num_types)[1],
             GenType(i - 1, config.num_types)[2], inline_str)]

\* write_fn_static / write_fn_dynamic: fn_static_template! / fn_dynamic_template!
WriteFn(strategy, num, inline_str) ==
    Line(IF strategy = "static" THEN "fn_static" ELSE "fn_dynamic", num, 0, 0, inline_str)

FnLines(config, strategy, inline_str) ==
    [i \in 1..config.num_fns |-> WriteFn(strategy, i - 1, inline_str)]

\* static V{num}: &T{num} = &T{num}({ctor});
StaticLines(config) ==
    [i \in 1..config.num_types |->
        Line("static", i - 1, GenCtor(i - 1, config.num_types)[1],
             GenCtor(i - 1, config.num_types)[2], "")]

\* do_io_f{fn_num}(V{type_num});
CallLine(fn_num, type_num) == Line("call", fn_num, type_num, 0, "")

\* the timing loop's body: for fn { for type { for call { call line } } blank }
LoopBody_typeMajor(config) ==
    Flatten([ti \in 1..config.num_types |->
        Flatten([fi \in 1..config.num_fns |->
            [c \in 1..config.num_calls |-> CallLine(fi - 1, ti - 1)]])
        \o <<Blank>>])

LoopBody(config) ==
    Flatten([fi \in 1..config.num_fns |->
        Flatten([ti \in 1..config.num_types |->
            [c \in 1..config.num_calls |-> CallLine(fi - 1, ti - 1)]])
        \o <<Blank>>])

\* everything gen_case writes, in order
GenCaseText(config, strategy, opts) ==
    <<Line("comment", config.num_types, config.num_calls, 0, ""), Blank,
      Line("header", 0, 0, 0, "")>>
    \o TypeLines(config, InlineStr(opts))
    \o FnLines(config, strategy, InlineStr(opts))
    \o <<Blank, Line("main_open", 0, 0, 0, "")>>
    \o StaticLines(config)
    \o <<Blank, Line("loop_open", TEST_LOOPS, 0, 0, "")>>
    \o LoopBody(config)
    \o <<Line("loop_close", 0, 0, 0, ""), Line("main_close", 0, 0, 0, "")>>

\* ------------------------------------------------------ control flow
OutLine(what, config) == [what |-> what, config |-> config]

\* prereport's first word
ActionName(kind) ==
    CASE kind = "gen" -> "generating"
      [] kind = "compile" -> "compiling"
      [] kind = "run" -> "running"

\* the first outside call of gen_one_case / compile_one_case / run_one_case
FirstStep(kind) ==
    CASE kind = "gen" -> "gen_static"
      [] kind = "compile" -> "rustc_bin_static"
      [] kind = "run" -> "run_static"

\* a single-case operation starts on config: verify_case (a failed assert!
\* panics, and the process ends), then prereport
Enter(kind, config) ==
    /\ cur' = config
    /\ attempted' = Append(attempted, config)
    /\ trace' = <<>>
    /\ IF VerifyCase(config)
       THEN /\ pc' = FirstStep(kind)
            /\ result' = "running"
            /\ out' = <<OutLine(ActionName(kind), config)>>
       ELSE /\ pc' = "exit"
            /\ result' = "panic"
            /\ out' = <<>>

\* run_all_for from loop position i on: hand the point there to the
\* single-case operation, or leave the loops and return Ok(())
LoopFrom(its, kind, i, o, tr) ==
    /\ idx' = i
    /\ IF i = NoIdx
       THEN /\ pc' = "exit"
            /\ result' = "ok"
            /\ out' = o
            /\ trace' = tr
            /\ UNCHANGED <<cur, attempted>>
       ELSE Enter(kind, PointAt(its, i))

SweepAborts_never(r) == FALSE

\* `test(config)?` in run_all_for: an Err leaves the loops and the function
SweepAborts(r) == r # "ok"

\* the single-case operation returns r, having printed o and made the calls
\* tr: main returns r (`?`), or run_all_for goes on with the next point
Return(r, o, tr) ==
    /\ returned' = Append(returned, [config |-> cur, res |-> r])
    /\ IF ~cmd.sweep \/ SweepAborts(r)
       THEN /\ pc' = "exit"
            /\ result' = r
            /\ out' = o
            /\ trace' = tr
            /\ UNCHANGED <<idx, cur, attempted>>
       ELSE LoopFrom(iters, cmd.kind, NextIdx(iters, idx), o, tr)

\* the operation goes on to its next outside call
Goto(step, o, tr) ==
    /\ pc' = step
    /\ out' = o
    /\ trace' = tr
    /\ UNCHANGED <<idx, cur, attempted, returned, result>>

\* one outside call, as the history records it: spawned tells whether a child
\* process ran, outAt how many lines the operation had printed before it
Event(step, strategy, outcome, spawned) ==
    [step |-> step, strategy |-> strategy, config |-> cur, outcome |-> outcome,
     spawned |-> spawned, outAt |-> Len(out)]

\* Command::status()/output(): the child ran and exited 0, ran and exited
\* non-zero, or could not be spawned
ProcOutcomes == {"ok", "nonzero", "spawn_err"}

\* create_dir_all + File::create + the writes + flush: all fine, no file
\* created, or a write failed after the file was created
GenOutcomes == {"ok", "create_err", "write_err"}

\* fs::metadata
StatOutcomes == {"ok", "io_err"}

\* ------------------------------------------------------------- actions
NoCmd == CmdRec("none", FALSE, <<0, 0>>, <<0, 0>>, <<0, 0>>, FALSE, FALSE)

Init ==
    /\ pc = "start"
    /\ cmd = NoCmd
    /\ iters = <<<<>>, <<>>, <<>>>>
    /\ idx = NoIdx
    /\ cur = NoCase
    /\ attempted = <<>>
    /\ returned = <<>>
    /\ trace = <<>>
    /\ out = <<>>
    /\ fs = {}
    /\ written = [path |-> Path("none", NoCase, "rs"), text |-> <<>>]
    /\ result = "running"

\* what main does with the parsed subcommand c
Start(c, overflow_checks) ==
    /\ cmd' = c
    /\ IF c.sweep
       THEN IF RangesOverflow(c) /\ overflow_checks
            THEN /\ pc' = "exit"
                 /\ result' = "panic"
                 /\ UNCHANGED <<iters, idx, cur, attempted, out, trace>>
            ELSE LET its == Ranges(c)
                 IN  /\ iters' = its
                     /\ LoopFrom(its, c.kind, FirstIdx(its), out, trace)
       ELSE /\ Enter(c.kind, Case(c.num_types, c.num_fns, c.num_calls))
            /\ UNCHANGED <<iters, idx>>

\* main: parse the subcommand (flag is --no-inline of gen-*, --asm of
\* compile-*) and start it.  overflow_checks is the build's setting: with it
\* `num + 1` in ranges() panics on overflow, without it wraps.
Main ==
    /\ pc = "start"
    /\ \E kind \in Kinds, sweep \in BOOLEAN, flag \in BOOLEAN,
          overflow_checks \in BOOLEAN :
        \E t \in AxisArgs(sweep, MaxTypes), f \in AxisArgs(sweep, MaxFns),
           c \in AxisArgs(sweep, MaxCalls) :
            /\ kind = "run" => ~flag
            /\ Start(CmdRec(kind, sweep, t, f, c,
                            kind = "gen" /\ flag, kind = "compile" /\ flag),
                     overflow_checks)
    /\ UNCHANGED <<returned, fs, written>>

\* gen_case(config, path, write_fn, opts) for one strategy; next is the
\* operation's next outside call, or "return" when it then returns Ok(())
GenCase(step, strategy, next) ==
    /\ pc = step
    /\ \E oc \in GenOutcomes :
        LET tr == Append(trace, Event(step, strategy, oc, FALSE)) IN
        /\ fs' = CASE oc = "ok" -> WriteFile(fs, File(Path(strategy, cur, "rs"), TRUE))
                   [] oc = "write_err" -> WriteFile(fs, File(Path(strategy, cur, "rs"), FALSE))
                   [] OTHER -> fs
        /\ written' = IF oc = "ok"
                      THEN [path |-> Path(strategy, cur, "rs"),
                            text |-> GenCaseText(cur, strategy, cmd)]
                      ELSE written
        /\ IF oc # "ok" THEN Return("io error", out, tr)
           ELSE IF next = "return" THEN Return("ok", out, tr)
           ELSE Goto(next, out, tr)
    /\ UNCHANGED <<cmd, iters>>

\* run_rustc(src, out, emit, opts), then printing the lines `prints`
RunRustc(step, strategy, ext, next, prints) ==
    /\ pc = step
    /\ \E oc \in ProcOutcomes :
        LET tr == Append(trace, Event(step, strategy, oc, oc # "spawn_err")) IN
        IF oc = "ok"
        THEN /\ fs' = WriteFile(fs, File(Path(strategy, cur, ext), TRUE))
             /\ Goto(next, out \o prints, tr)
        ELSE /\ fs' = fs
             /\ Return(IF oc = "nonzero" THEN "rustc failed" ELSE "io error", out, tr)
    /\ UNCHANGED <<cmd, iters, written>>

\* fs::metadata(path)?.len(), then printing the lines `prints`
Stat(step, strategy, next, prints) ==
    /\ pc = step
    /\ \E oc \in StatOutcomes :
        LET tr == Append(trace, Event(step, strategy, oc, FALSE)) IN
        IF oc = "ok" THEN Goto(next, out \o prints, tr)
        ELSE Return("io error", out, tr)
    /\ UNCHANGED <<cmd, iters, fs, written>>

\* count_symbols(bin), then printing the lines `prints`
CountSymbols(step, strategy, next, prints) ==
    /\ pc = step
    /\ \E oc \in ProcOutcomes :
        LET tr == Append(trace, Event(step, strategy, oc, oc # "spawn_err")) IN
        IF oc # "ok"
        THEN Return(IF oc = "nonzero" THEN "running nm failed" ELSE "io error", out, tr)
        ELSE IF next = "return" THEN Return("ok", out \o prints, tr)
        ELSE Goto(next, out \o prints, tr)
    /\ UNCHANGED <<cmd, iters, fs, written>>

\* run_case(bin), then printing the lines `prints`
RunCase(step, strategy, next, prints) ==
    /\ pc = step
    /\ \E oc \in ProcOutcomes :
        LET tr == Append(trace, Event(step, strategy, oc, oc # "spawn_err")) IN
        IF oc # "ok"
        THEN Return(IF oc = "nonzero" THEN "running case failed" ELSE "io error", out, tr)
        ELSE IF next = "return" THEN Return("ok", out \o prints, tr)
        ELSE Goto(next, out \o prints, tr)
    /\ UNCHANGED <<cmd, iters, fs, written>>

\* gen_one_case
GenStatic == GenCase("gen_static", "static", "gen_dynamic")

GenDynamic == GenCase("gen_dynamic", "dynamic", "return")

\* compile_one_case
RustcBinStatic_printsEarly ==
    RunRustc("rustc_bin_static", "static", "bin", "rustc_bin_dynamic",
             <<OutLine("static-compile-time", cur)>>)

RustcBinStatic ==
    RunRustc("rustc_bin_static", "static", "bin", "rustc_bin_dynamic", <<>>)

RustcBinDynamic ==
    RunRustc("rustc_bin_dynamic", "dynamic", "bin", "stat_static",
             <<OutLine("static-compile-time", cur),
               OutLine("dynamic-compile-time", cur)>>)

StatStatic_ignoresError ==
    /\ pc = "stat_static"
    /\ \E oc \in StatOutcomes :
        Goto("stat_dynamic", out,
             Append(trace, Event("stat_static", "static", oc, FALSE)))
    /\ UNCHANGED <<cmd, iters, fs, written>>

StatStatic == Stat("stat_static", "static", "stat_dynamic", <<>>)

StatDynamic_sizesNotPrinted ==
    Stat("stat_dynamic", "dynamic",
         IF cmd.asm THEN "rustc_asm_static" ELSE "nm_static", <<>>)

StatDynamic ==
    Stat("stat_dynamic", "dynamic",
         IF cmd.asm THEN "rustc_asm_static" ELSE "nm_static",
         <<OutLine("static-bin-size", cur), OutLine("dynamic-bin-size", cur)>>)

RustcAsmStatic ==
    RunRustc("rustc_asm_static", "static", "S", "rustc_asm_dynamic", <<>>)

RustcAsmDynamic ==
    RunRustc("rustc_asm_dynamic", "dynamic", "S", "nm_static", <<>>)

NmStatic == CountSymbols("nm_static", "static", "nm_dynamic", <<>>)

NmDynamic ==
    CountSymbols("nm_dynamic", "dynamic", "return",
                 <<OutLine("static-method-count", cur),
                   OutLine("static-fn-count", cur),
                   OutLine("dynamic-method-count", cur),
                   OutLine("dynamic-fn-count", cur)>>)

\* run_one_case
RunStatic == RunCase("run_static", "static", "run_dynamic", <<>>)

RunDynamic ==
    RunCase("run_dynamic", "dynamic", "return",
            <<OutLine("static-run-time", cur), OutLine("dynamic-run-time", cur)>>)

Next ==
    \/ Main
    \/ GenStatic
    \/ GenDynamic
    \/ RustcBinStatic
    \/ RustcBinDynamic
    \/ StatStatic
    \/ StatDynamic
    \/ RustcAsmStatic
    \/ RustcAsmDynamic
    \/ NmStatic
    \/ NmDynamic
    \/ RunStatic
    \/ RunDynamic

Spec == Init /\ [][Next]_vars

\* =============================================================== claims
IsPrefix(a, b) == Len(a) <= Len(b) /\ \A i \in 1..Len(a) : a[i] = b[i]

HasZero(config) ==
    config.num_types = 0 \/ config.num_fns = 0 \/ config.num_calls = 0

\* the Cartesian product of three sequences in lexicographic order, the
\* first outermost: element n is addressed by the digits of n - 1
ProductLen(its) == Len(its[1]) * Len(its[2]) * Len(its[3])

ProductAt(its, n) ==
    Case(its[1][((n - 1) \div (Len(its[2]) * Len(its[3]))) + 1],
         its[2][(((n - 1) \div Len(its[3])) % Len(its[2])) + 1],
         its[3][((n - 1) % Len(its[3])) + 1])

Product(its) == [n \in 1..ProductLen(its) |-> ProductAt(its, n)]

\* ranges() has returned (it panics when `num + 1` overflows in a build
\* with overflow checks)
RangesDone == cmd.sweep /\ ~(RangesOverflow(cmd) /\ result = "panic")

SomeFailure == \E i \in 1..Len(returned) : returned[i].res # "ok"

LastFailed == returned # <<>> /\ Last(returned).res # "ok"

C2_Example ==
    /\ cmd.sweep
    /\ cmd.num_types = 4 /\ cmd.step_types = 2
    /\ cmd.num_fns = 2 /\ cmd.step_fns = 0
    /\ cmd.num_calls = 1 /\ cmd.step_calls = 0

\* C2 as the spec states it: the example sweep yields exactly (2,2,1) and
\* (4,2,1), in that order.
C2_ExampleYields2Then4 ==
    (C2_Example /\ pc = "exit" /\ result = "ok") =>
        attempted = <<Case(2, 2, 1), Case(4, 2, 1)>>

\* C2 amended: the example sweep yields exactly (1,2,1), (3,2,1) and
\* (5,2,1), in that order: ranges() iterates the type axis as 1..=4+1 by 2.
\* The ranges are those from the moment the sweep starts, and a sweep that
\* ends Ok has attempted exactly these points.
C2_ExampleYields1Then3Then5 ==
    (C2_Example /\ pc # "start") =>
        /\ iters = <<<<1, 3, 5>>, <<2>>, <<1>>>>
        /\ IsPrefix(attempted, <<Case(1, 2, 1), Case(3, 2, 1), Case(5, 2, 1)>>)
        /\ (pc = "exit" /\ result = "ok") =>
                attempted = <<Case(1, 2, 1), Case(3, 2, 1), Case(5, 2, 1)>>

\* the example sweep has run to its end without a failure
C2_Witness == C2_Example /\ pc = "exit" /\ result = "ok" /\ Len(returned) = 3

\* the axes of a sweep: <<bound the user gave, step, the range ranges() built>>
Axes ==
    <<<<cmd.num_types, cmd.step_types, iters[1]>>,
      <<cmd.num_fns, cmd.step_fns, iters[2]>>,
      <<cmd.num_calls, cmd.step_calls, iters[3]>>>>

Increasing(s) == \A i \in 1..(Len(s) - 1) : s[i] < s[i + 1]

Elems(s) == {s[i] : i \in 1..Len(s)}

\* ranges() has just returned: no point's operation has made a call yet
JustStarted == pc # "start" /\ returned = <<>> /\ trace = <<>>

\* C3 as the spec states it: a stepped axis with bound B yields exactly the
\* values 1, 1+step, 1+2*step, ... that are <= B, so no value exceeds B.
\* (Sweeps with a bound of u32::MAX are left out here: the claim already
\* fails without them.)
C3_StepsStopAtBound ==
    (RangesDone /\ JustStarted /\ ~RangesOverflow(cmd)) =>
        \A a \in 1..3 :
            (Axes[a][2] > 0 /\ Axes[a][1] # U32Max) =>
                /\ Increasing(Axes[a][3])
                /\ Elems(Axes[a][3]) =
                      {v \in 1..Axes[a][1] : (v - 1) % Axes[a][2] = 0}

\* C3 amended: a stepped axis with bound B < u32::MAX yields exactly the
\* values 1, 1+step, 1+2*step, ... that are <= B + 1, in increasing order:
\* the inclusive upper bound is B + 1, so a point's axis value can exceed the
\* bound the user gave by one and never by more.  With B = u32::MAX, `B + 1`
\* overflows: ranges() panics in a build with overflow checks and yields
\* nothing on that axis in a build without.  (The ranges are looked at when
\* ranges() has just returned; the points, whenever one is attempted.)
C3_StepsStopAtBoundPlusOne ==
    RangesDone =>
        /\ JustStarted =>
            \A a \in 1..3 :
                /\ (Axes[a][2] > 0 /\ Axes[a][1] # U32Max) =>
                    /\ Increasing(Axes[a][3])
                    /\ Elems(Axes[a][3]) =
                          {v \in 1..(Axes[a][1] + 1) : (v - 1) % Axes[a][2] = 0}
                /\ (Axes[a][2] > 0 /\ Axes[a][1] = U32Max) => Axes[a][3] = <<>>
        /\ attempted # <<>> =>
            /\ cmd.step_types > 0 => Last(attempted).num_types <= cmd.num_types + 1
            /\ cmd.step_fns > 0 => Last(attempted).num_fns <= cmd.num_fns + 1
            /\ cmd.step_calls > 0 => Last(attempted).num_calls <= cmd.num_calls + 1

\* a sweep has attempted a point whose type count is one over the bound,
\* reached in steps of 2
C3_Witness ==
    /\ cmd.sweep
    /\ cmd.step_types = 2
    /\ cmd.num_types = 4
    /\ attempted # <<>>
    /\ Last(attempted).num_types = 5

\* C4: a sweep hands the points of the Cartesian product of the three axis
\* ranges to the single-case operation in lexicographic order (type axis
\* outermost, call axis innermost), one at a time: the n-th point attempted
\* is the n-th of the product, every attempted point but the one in
\* progress has returned before the next is attempted, and a sweep that
\* ends Ok (no point failed) has attempted exactly the product, each point
\* once, and every one of these operations returned Ok.
C4_CartesianOrder ==
    (cmd.sweep /\ pc # "start") =>
        /\ Len(attempted) <= ProductLen(iters)
        /\ attempted # <<>> =>
                Last(attempted) = ProductAt(iters, Len(attempted))
        /\ Len(returned) <= Len(attempted)
        /\ Len(attempted) <= Len(returned) + 1
        /\ returned # <<>> =>
                Last(returned).config = attempted[Len(returned)]
        /\ (pc # "exit") => Len(attempted) = Len(returned) + 1
        /\ (pc = "exit" /\ result = "ok") =>
                /\ attempted = Product(iters)
                /\ Len(returned) = Len(attempted)
                /\ \A i \in 1..Len(returned) :
                      returned[i] = [config |-> attempted[i], res |-> "ok"]

\* a sweep over at least two values on every axis has ended Ok
C4_Witness ==
    /\ cmd.sweep
    /\ pc = "exit"
    /\ result = "ok"
    /\ Len(iters[1]) >= 2 /\ Len(iters[2]) >= 2 /\ Len(iters[3]) >= 2
    /\ Len(attempted) = ProductLen(iters)

InOut(what, config) == \E i \in 1..Len(out) : out[i] = OutLine(what, config)

FilesOf(config) ==
    {x \in fs : /\ x.path.num_types = config.num_types
                /\ x.path.num_fns = config.num_fns
                /\ x.path.num_calls = config.num_calls}

\* C5: compile_one_case and run_one_case on a CaseConfig with a zero axis
\* fail (verify_case's assert! panics) before anything else happens: no
\* outside call is made, so no rustc, nm or benchmark process is spawned,
\* nothing is printed and no file of that configuration is created.  This
\* covers single-case commands and points a sweep reaches (a pinned axis of 0).
C5_ZeroAxisFailsBeforeSpawn ==
    (cmd.kind \in {"compile", "run"} /\ attempted # <<>> /\ HasZero(Last(attempted))) =>
        /\ cur = Last(attempted)
        /\ pc = "exit"
        /\ result = "panic"
        /\ trace = <<>>
        /\ out = <<>>
        /\ FilesOf(cur) = {}
        /\ \A i \in 1..Len(returned) : returned[i].config # cur

\* a compile sweep over a stepped type axis with the call axis pinned at 0
\* has handed its first point to compile_one_case
C5_Witness ==
    /\ cmd.kind = "compile"
    /\ cmd.sweep
    /\ cmd.step_types > 0
    /\ cmd.step_calls = 0
    /\ attempted # <<>>
    /\ Last(attempted).num_types > 0
    /\ Last(attempted).num_fns > 0
    /\ Last(attempted).num_calls = 0

Measurements ==
    {"compile-time", "bin-size", "method-count", "fn-count", "run-time"}

StaticName(m) ==
    CASE m = "compile-time" -> "static-compile-time"
      [] m = "bin-size" -> "static-bin-size"
      [] m = "method-count" -> "static-method-count"
      [] m = "fn-count" -> "static-fn-count"
      [] m = "run-time" -> "static-run-time"

DynamicName(m) ==
    CASE m = "compile-time" -> "dynamic-compile-time"
      [] m = "bin-size" -> "dynamic-bin-size"
      [] m = "method-count" -> "dynamic-method-count"
      [] m = "fn-count" -> "dynamic-fn-count"
      [] m = "run-time" -> "dynamic-run-time"

\* the extensions of the artifacts the running subcommand creates
ArtifactExts ==
    CASE cmd.kind = "gen" -> {"rs"}
      [] cmd.kind = "compile" -> IF cmd.asm THEN {"bin", "S"} ELSE {"bin"}
      [] OTHER -> {}

\* C7 as the spec states it: when a single-case command has ended, with Ok
\* or with an error, each artifact and each measurement of the configuration
\* exists for the static variant iff it exists for the dynamic variant.
C7_AlwaysAMatchedPair ==
    (~cmd.sweep /\ pc = "exit") =>
        /\ \A ext \in {"rs", "bin", "S"} :
              Exists(fs, Path("static", cur, ext)) <=> Exists(fs, Path("dynamic", cur, ext))
        /\ \A m \in Measurements :
              InOut(StaticName(m), cur) <=> InOut(DynamicName(m), cur)

\* C7 amended: the pair is matched when the operation succeeds, not when it
\* fails.  A single-case operation that returned Ok has left a complete
\* artifact for both strategies, and every measurement is printed for the
\* static variant iff it is printed for the dynamic one (the two lines are
\* printed together, after both steps succeeded).  After an error the
\* static artifact may exist without the dynamic one.
C7_MatchedPairOnSuccess ==
    /\ \A m \in Measurements :
          InOut(StaticName(m), cur) <=> InOut(DynamicName(m), cur)
    /\ (returned # <<>> /\ Last(returned).res = "ok") =>
          \A st \in Strategies, ext \in ArtifactExts :
              File(Path(st, Last(returned).config, ext), TRUE) \in fs
    /\ (pc = "exit" /\ result = "ok" /\ returned # <<>>) =>
          /\ cmd.kind = "compile" =>
                \A m \in {"compile-time", "bin-size", "method-count", "fn-count"} :
                    InOut(StaticName(m), cur) /\ InOut(DynamicName(m), cur)
          /\ cmd.kind = "run" =>
                InOut("static-run-time", cur) /\ InOut("dynamic-run-time", cur)

\* compile-one-case ended with an error after the static binary was built:
\* the static binary exists alone
C7_Witness ==
    /\ ~cmd.sweep
    /\ cmd.kind = "compile"
    /\ pc = "exit"
    /\ result = "rustc failed"
    /\ Exists(fs, Path("static", cur, "bin"))
    /\ ~Exists(fs, Path("dynamic", cur, "bin"))

\* the error a failed outside call makes its operation return
ErrorOf(e) ==
    IF e.spawned
    THEN CASE e.step \in {"rustc_bin_static", "rustc_bin_dynamic",
                          "rustc_asm_static", "rustc_asm_dynamic"} -> "rustc failed"
           [] e.step \in {"nm_static", "nm_dynamic"} -> "running nm failed"
           [] e.step \in {"run_static", "run_dynamic"} -> "running case failed"
    ELSE "io error"

\* C8: in compile_one_case and run_one_case the first failing step is the
\* last step: once an outside call (a build, a stat, an assembly build, a
\* symbol listing, a run) has failed, no further call of the operation is
\* made, no further child is spawned, the operation has returned that
\* call's error, and every call before it had succeeded.
C8_FirstErrorStops ==
    cmd.kind \in {"compile", "run"} =>
        \A i \in 1..Len(trace) :
            IF i < Len(trace) THEN trace[i].outcome = "ok"
            ELSE trace[i].outcome # "ok" =>
                    /\ pc = "exit"
                    /\ result = ErrorOf(trace[i])
                    /\ returned # <<>>
                    /\ Last(returned) = [config |-> trace[i].config,
                                         res |-> ErrorOf(trace[i])]

\* compile_one_case has stopped at a failed stat of the dynamic binary
C8_Witness ==
    /\ cmd.kind = "compile"
    /\ pc = "exit"
    /\ trace # <<>>
    /\ Last(trace).step = "stat_dynamic"
    /\ Last(trace).outcome = "io_err"
    /\ result = "io error"

IsCall(l) == l.kind = "call"

\* the wrapper invocations of a source text, in order, as <<function, type>>
Calls(text) ==
    LET sel == SelectSeq(text, IsCall)
    IN  [i \in 1..Len(sel) |-> <<sel[i].x, sel[i].y>>]

\* F*T*C invocations, function-major then type-major, each pair C times running
FnMajor(T, F, C) ==
    [n \in 1..(F * T * C) |-> <<(n - 1) \div (T * C), ((n - 1) \div C) % T>>]

\* F*T*C invocations, type-major then function-major, each pair C times running
TypeMajor(T, F, C) ==
    [n \in 1..(F * T * C) |-> <<((n - 1) \div C) % F, (n - 1) \div (F * C)>>]

Occurrences(s, x) == Cardinality({i \in 1..Len(s) : s[i] = x})

\* gen_case has just completed a source file: gen_static's success leaves
\* the program before gen_dynamic, gen_dynamic's success ends gen_one_case
JustWritten ==
    /\ written.text # <<>>
    /\ \/ pc = "gen_dynamic" /\ written.path = Path("static", cur, "rs")
       \/ returned # <<>> /\ written.path = Path("dynamic", Last(returned).config, "rs")

IsNm(e) == e.step \in {"nm_static", "nm_dynamic"}

\* position of a line in the operation's output, 0 when it is not there
PrintedAt(what, config) ==
    IF InOut(what, config)
    THEN CHOOSE i \in 1..Len(out) : out[i] = OutLine(what, config)
    ELSE 0

\* C10: whenever compile_one_case invokes the symbol-listing utility, both
\* binary builds have succeeded and the compile times and binary sizes of
\* both strategies were printed before that invocation; a failure of the
\* utility ends the operation with an error (bail!("running nm failed"), or
\* the I/O error when nm could not be started) and leaves those lines printed.
C10_MeasuredBeforeSymbols ==
    \A i \in 1..Len(trace) :
        IsNm(trace[i]) =>
            /\ \A w \in {"static-compile-time", "dynamic-compile-time",
                         "static-bin-size", "dynamic-bin-size"} :
                  /\ PrintedAt(w, trace[i].config) > 0
                  /\ PrintedAt(w, trace[i].config) <= trace[i].outAt
            /\ \E j \in 1..(i - 1) :
                  trace[j].step = "rustc_bin_static" /\ trace[j].outcome = "ok"
            /\ \E j \in 1..(i - 1) :
                  trace[j].step = "rustc_bin_dynamic" /\ trace[j].outcome = "ok"
            /\ trace[i].outcome # "ok" =>
                  /\ pc = "exit"
                  /\ result = (IF trace[i].outcome = "nonzero"
                               THEN "running nm failed" ELSE "io error")
                  /\ returned # <<>>
                  /\ Last(returned).res = result

\* nm exited non-zero on the static binary
C10_Witness ==
    /\ trace # <<>>
    /\ Last(trace).step = "nm_static"
    /\ Last(trace).outcome = "nonzero"
    /\ result = "running nm failed"
    /\ InOut("static-bin-size", cur)

====
